---- MODULE Spec2Model ----
(***************************************************************************)
(* CNAB240 payment extractors of felipebarte/cnab:                         *)
(*   teste-py/teste.py       extrair_pagamentos_cnab240                    *)
(*   teste-py/teste_temp.py  extrair_pagamentos_cnab240_corrigido          *)
(* A character is a one-element string, a line is a sequence of            *)
(* characters, offsets are Python's (0-based, end-exclusive).              *)
(***************************************************************************)
EXTENDS Integers, Sequences, FiniteSets, TLC

VARIABLES prog, linhas, i, pagamentos, pc, fontes, exames,
          execucao, anterior,
          registros_formatados, escrito,
          content, registros,
          texto, min_length, max_length, sequencias,
          codigo, retorno

vars == <<prog, linhas, i, pagamentos, pc, fontes, exames,
          execucao, anterior, registros_formatados, escrito, content,
          registros, texto, min_length, max_length, sequencias, codigo,
          retorno>>

\* the state of the two extractors
extrator == <<linhas, pagamentos, exames>>

\* the state of the other scripts, which the extractors never touch
outros == <<registros_formatados, escrito, content, registros, texto,
            min_length, max_length, sequencias, codigo, retorno>>

\* the other scripts before they run
OutrosParados ==
    /\ registros_formatados = <<>>
    /\ escrito = <<>>
    /\ content = <<>>
    /\ registros = <<>>
    /\ texto = <<>>
    /\ min_length = 0
    /\ max_length = 0
    /\ sequencias = <<>>
    /\ codigo = <<>>
    /\ retorno = "None"

(* ------------------------------ bounds --------------------------------- *)

MaxLinhas == 3

MaxResto == 8

(* --------------------- Python string primitives ------------------------ *)

Whitespace == {" ", "\t", "\n", "\r", "\f"}

Digits == <<"0", "1", "2", "3", "4", "5", "6", "7", "8", "9">>

\* str.isdigit: the decimal digits and digit-like characters such as the
\* superscript two (written "SUP2" here), which int() does not accept
IsDigit(c) == c \in {Digits[k] : k \in 1..10} \cup {"SUP2"}

IsDecimal(c) == c \in {Digits[k] : k \in 1..10}

MinOf(S) == CHOOSE x \in S : \A y \in S : x <= y

MaxOf(S) == CHOOSE x \in S : \A y \in S : y <= x

\* s[a:b]
Slice(s, a, b) == SubSeq(s, a + 1, IF b < Len(s) THEN b ELSE Len(s))

\* s[a:]
SliceFrom(s, a) == SubSeq(s, a + 1, Len(s))

\* s.strip()
Strip(s) ==
    LET keep == {k \in 1..Len(s) : s[k] \notin Whitespace}
    IN  IF keep = {} THEN <<>> ELSE SubSeq(s, MinOf(keep), MaxOf(keep))

\* c in s
Contains(c, s) == \E k \in 1..Len(s) : s[k] = c

\* s.split(): the maximal runs of non-whitespace characters, left to right
RECURSIVE Split(_)
Split(s) ==
    LET keep == {k \in 1..Len(s) : s[k] \notin Whitespace}
    IN  IF keep = {} THEN <<>>
        ELSE LET a    == MinOf(keep)
                 stop == {k \in a..Len(s) : s[k] \in Whitespace}
                 b    == IF stop = {} THEN Len(s) ELSE MinOf(stop) - 1
             IN  <<SubSeq(s, a, b)>> \o Split(SubSeq(s, b + 1, Len(s)))

\* s.replace("  ", " "): non-overlapping occurrences, left to right
RECURSIVE ReplaceDoubleSpace(_)
ReplaceDoubleSpace(s) ==
    IF Len(s) < 2 THEN s
    ELSE IF s[1] = " " /\ s[2] = " "
         THEN <<" ">> \o ReplaceDoubleSpace(SubSeq(s, 3, Len(s)))
         ELSE <<s[1]>> \o ReplaceDoubleSpace(SubSeq(s, 2, Len(s)))

\* ''.join(filter(str.isdigit, s))
FilterDigits(s) == SelectSeq(s, IsDigit)

DigitVal(c) == (CHOOSE k \in 1..10 : Digits[k] = c) - 1

RECURSIVE DigitsToInt(_)
DigitsToInt(s) ==
    IF s = <<>> THEN 0
    ELSE 10 * DigitsToInt(SubSeq(s, 1, Len(s) - 1)) + DigitVal(s[Len(s)])

\* int(s): surrounding whitespace, one optional sign, decimal digits with
\* single underscores between them; anything else raises ValueError
IntBody(s) ==
    LET t == Strip(s)
    IN  IF t # <<>> /\ t[1] \in {"+", "-"} THEN SubSeq(t, 2, Len(t)) ELSE t

IntNegative(s) == LET t == Strip(s) IN t # <<>> /\ t[1] = "-"

IntRaises(s) ==
    LET b == IntBody(s)
    IN  IF b = <<>> THEN TRUE
        ELSE IF \E k \in 1..Len(b) : ~IsDecimal(b[k]) /\ b[k] # "_" THEN TRUE
        ELSE IF b[1] = "_" \/ b[Len(b)] = "_" THEN TRUE
        ELSE \E k \in 1..(Len(b) - 1) : b[k] = "_" /\ b[k + 1] = "_"

IntValue(s) ==
    LET n == DigitsToInt(SelectSeq(IntBody(s), IsDecimal))
    IN  IF IntNegative(s) THEN 0 - n ELSE n

\* n / 100 as the exact quotient
Reais(n) == [num |-> n, den |-> 100]

(* ------------------- teste.py: extrair_pagamentos_cnab240 -------------- *)

\* EhSegmentoJ without the test of the segment code
EhSegmentoJ_soTipo(linha) == Slice(linha, 7, 8) = <<"3">>

\* linha[7:8] == "3" and linha[13:14] == "J"
EhSegmentoJ(linha) == Slice(linha, 7, 8) = <<"3">> /\ Slice(linha, 13, 14) = <<"J">>

\* proxima_linha[7:8] == "3" and proxima_linha[13:14] == "B"
EhSegmentoB(linha) == Slice(linha, 7, 8) = <<"3">> /\ Slice(linha, 13, 14) = <<"B">>

\* len(linha) >= 240
TamanhoValido(linha) == Len(linha) >= 240

\* the try/except around the conversion of valor_str
ValorReais(valor_str) ==
    LET valor_pagamento_limpo == FilterDigits(valor_str)
    IN  IF valor_pagamento_limpo # <<>>
        THEN IF IntRaises(valor_pagamento_limpo)
             THEN Reais(0)
             ELSE Reais(IntValue(valor_pagamento_limpo))
        ELSE Reais(0)

\* the payer fields of the second J line
PagadorCnpj(segunda_linha_j) == Strip(Slice(segunda_linha_j, 21, 35))

PagadorNome(segunda_linha_j) == Strip(Slice(segunda_linha_j, 35, 58))

\* PularSegundaJ without the increment: the second J line is not skipped
PularSegundaJ_semPulo(k) == k

\* i += 1 after the second J line
PularSegundaJ(k) == k + 1

\* i += 1 after the segment B line
PularSegmentoB(k) == k + 1

\* the dictionary built from the first J line
PagamentoBase(linha, pagador_nome, cnpj_pagador) ==
    [ favorecido_nome  |-> Strip(Strip(Slice(linha, 61, 91))),
      pagador_nome     |-> Strip(pagador_nome),
      cnpj_pagador     |-> cnpj_pagador,
      banco_favorecido |-> Strip(Slice(linha, 20, 23)),
      valor            |-> ValorReais(Strip(Slice(linha, 26, 36))),
      data_pagamento   |-> Strip(Slice(linha, 91, 99)),
      documento        |-> Strip(Strip(Slice(linha, 41, 61))),
      codigo_banco     |-> Strip(Slice(linha, 0, 3)),
      codigo_lote      |-> Strip(Slice(linha, 3, 7)),
      tipo_registro    |-> Strip(Slice(linha, 7, 8)),
      numero_registro  |-> Strip(Slice(linha, 8, 13)),
      segmento         |-> Strip(Slice(linha, 13, 14)),
      codigo_movimento |-> Strip(Slice(linha, 14, 20)),
      codigo_camara    |-> Strip(Slice(linha, 23, 26)),
      informacoes      |-> Strip(Slice(linha, 200, 220)),
      descontos        |-> Strip(Slice(linha, 114, 129)),
      acrescimos       |-> Strip(Slice(linha, 129, 143)),
      codigo_barras    |-> Strip(Slice(linha, 17, 61)),
      endereco_completo |-> <<>>,
      logradouro       |-> <<>>,
      numero_endereco  |-> <<>>,
      complemento      |-> <<>>,
      bairro           |-> <<>>,
      cidade           |-> <<>>,
      cep              |-> <<>>,
      uf               |-> <<>>,
      email            |-> <<>>,
      cnpj_favorecido  |-> <<>> ]

\* PrimeiraParteEmail without the test len(parte) > 5
RECURSIVE PrimeiraParteEmail_semTamanho(_)
PrimeiraParteEmail_semTamanho(partes) ==
    IF partes = <<>> THEN <<>>
    ELSE LET parte == partes[1]
         IN  IF Contains("@", parte) /\ Contains(".", parte)
             THEN Strip(parte)
             ELSE PrimeiraParteEmail_semTamanho(SubSeq(partes, 2, Len(partes)))

\* the e-mail search in the rest of the segment B line
RECURSIVE PrimeiraParteEmail(_)
PrimeiraParteEmail(partes) ==
    IF partes = <<>> THEN <<>>
    ELSE LET parte == partes[1]
         IN  IF Contains("@", parte) /\ Contains(".", parte) /\ Len(parte) > 5
             THEN Strip(parte)
             ELSE PrimeiraParteEmail(SubSeq(partes, 2, Len(partes)))

ExtrairEmail(proxima_linha) ==
    LET resto_linha == Strip(SliceFrom(proxima_linha, 127))
    IN  IF Contains("@", resto_linha)
        THEN PrimeiraParteEmail(Split(resto_linha))
        ELSE <<>>

\* the fields pagamento.update() takes from the segment B line
CamposSegmentoB(proxima_linha) ==
    LET cnpj_favorecido == Strip(Slice(proxima_linha, 18, 32))
        logradouro      == Strip(Slice(proxima_linha, 32, 62))
        numero_endereco == Strip(Slice(proxima_linha, 62, 67))
        complemento     == Strip(Slice(proxima_linha, 67, 82))
        bairro          == Strip(Slice(proxima_linha, 82, 97))
        cidade          == Strip(Slice(proxima_linha, 97, 117))
        cep             == Strip(Slice(proxima_linha, 117, 125))
        uf              == Strip(Slice(proxima_linha, 125, 127))
    IN  [ cnpj_favorecido |-> cnpj_favorecido,
          endereco_completo |->
              Strip(ReplaceDoubleSpace(
                  Strip(logradouro) \o <<",", " ">> \o Strip(numero_endereco)
                  \o <<" ">> \o Strip(complemento) \o <<" ", "-", " ">>
                  \o Strip(bairro) \o <<" ", "-", " ">> \o Strip(cidade)
                  \o <<"/">> \o uf
                  \o <<" ", "-", " ", "C", "E", "P", ":", " ">> \o Strip(cep))),
          logradouro      |-> Strip(logradouro),
          numero_endereco |-> Strip(numero_endereco),
          complemento     |-> Strip(complemento),
          bairro          |-> Strip(bairro),
          cidade          |-> Strip(cidade),
          cep             |-> Strip(cep),
          uf              |-> Strip(uf),
          email           |-> ExtrairEmail(proxima_linha) ]

\* One iteration of the while loop on a segment J line of valid length:
\* the record of the line, the optional second J line, the optional
\* segment B line, the append and the final i += 1.
PrimeiraJ ==
    /\ prog = "teste"
    /\ pc = "loop"
    /\ i < Len(linhas)
    /\ EhSegmentoJ(linhas[i + 1])
    /\ TamanhoValido(linhas[i + 1])
    /\ LET linha   == linhas[i + 1]
           olhaJ   == i + 1 < Len(linhas)
           temJ    == olhaJ /\ EhSegmentoJ(linhas[i + 2])
           iJ      == IF temJ THEN PularSegundaJ(i) ELSE i
           base    == PagamentoBase(linha,
                          IF temJ THEN PagadorNome(linhas[i + 2]) ELSE <<>>,
                          IF temJ THEN PagadorCnpj(linhas[i + 2]) ELSE <<>>)
           olhaB   == iJ + 1 < Len(linhas)
           temB    == olhaB /\ EhSegmentoB(linhas[iJ + 2])
           iB      == IF temB THEN PularSegmentoB(iJ) ELSE iJ
           pagamento == IF temB THEN CamposSegmentoB(linhas[iJ + 2]) @@ base
                                ELSE base
       IN  /\ pagamentos' = Append(pagamentos, pagamento)
           /\ i' = iB + 1
           /\ fontes' = Append(fontes,
                  [ prim |-> i,
                    comp |-> IF temJ THEN i + 1 ELSE -1,
                    segb |-> IF temB THEN iJ + 1 ELSE -1 ])
           /\ exames' = exames
                  \cup {[estado |-> "Idle", linha |-> i, resultado |-> "primary"]}
                  \cup (IF olhaJ
                        THEN {[estado |-> "AwaitJ", linha |-> i + 1,
                               resultado |-> IF temJ THEN "continuation"
                                                     ELSE "rejected"]}
                        ELSE {})
                  \cup (IF olhaB
                        THEN {[estado |-> "AwaitB", linha |-> iJ + 1,
                               resultado |-> IF temB THEN "continuation"
                                                     ELSE "rejected"]}
                        ELSE {})
    /\ UNCHANGED <<prog, linhas, pc>>
    /\ UNCHANGED <<execucao, anterior>>
    /\ UNCHANGED outros

\* One iteration on any other line: only the final i += 1
Pular ==
    /\ prog = "teste"
    /\ pc = "loop"
    /\ i < Len(linhas)
    /\ ~(EhSegmentoJ(linhas[i + 1]) /\ TamanhoValido(linhas[i + 1]))
    /\ i' = i + 1
    /\ exames' = exames
           \cup {[estado |-> "Idle", linha |-> i, resultado |-> "skipped"]}
    /\ UNCHANGED <<prog, linhas, pagamentos, pc, fontes>>
    /\ UNCHANGED <<execucao, anterior>>
    /\ UNCHANGED outros

\* while i < len(linhas) fails: return pagamentos
Retornar ==
    /\ prog = "teste"
    /\ pc = "loop"
    /\ ~(i < Len(linhas))
    /\ pc' = "done"
    /\ UNCHANGED <<prog, linhas, i, pagamentos, fontes, exames>>
    /\ UNCHANGED <<execucao, anterior>>
    /\ UNCHANGED outros

NextTeste == PrimeiraJ \/ Pular \/ Retornar

(* ------------ teste_temp.py: extrair_pagamentos_cnab240_corrigido ------ *)

\* linha_j52[7:8] == '3' and linha_j52[13:15] == 'J0'
EhJ52(linha_j52) ==
    Slice(linha_j52, 7, 8) = <<"3">> /\ Slice(linha_j52, 13, 15) = <<"J", "0">>

\* the text int() is applied to
ValorCentavosTexto(linha) == Slice(linha, 119, 134)

RemetenteCnpj(linha_j52) == Strip(Slice(linha_j52, 44, 58))

RemetenteNome(linha_j52) == Strip(Slice(linha_j52, 58, 88))

\* the conditional expression stored under 'data_pagamento'
DataFormatada(data_pagamento) ==
    IF Len(data_pagamento) >= 8
    THEN Slice(data_pagamento, 6, 8) \o <<"/">> \o Slice(data_pagamento, 4, 6)
         \o <<"/">> \o Slice(data_pagamento, 0, 4)
    ELSE data_pagamento

PagamentoCorrigido(linha, cnpj_remetente, nome_remetente) ==
    [ favorecido_nome     |-> Strip(Slice(linha, 58, 88)),
      favorecido_cpf_cnpj |-> Strip(Slice(linha, 44, 58)),
      banco               |-> Strip(Slice(linha, 16, 19)),
      agencia             |-> Strip(Slice(linha, 19, 24)),
      conta               |-> Strip(Slice(linha, 24, 36)),
      valor               |-> Reais(IntValue(ValorCentavosTexto(linha))),
      data_pagamento      |-> DataFormatada(Slice(linha, 93, 101)),
      remetente_cnpj      |-> cnpj_remetente,
      remetente_nome      |-> nome_remetente ]

\* AvancarCorrigido without the increment
AvancarCorrigido_parado(k) == k

\* i += 2 after the append
AvancarCorrigido(k) == k + 2

\* One iteration on a segment J line whose value converts
CorrigidoJ ==
    /\ prog = "teste_temp"
    /\ pc = "loop"
    /\ i < Len(linhas)
    /\ EhSegmentoJ(linhas[i + 1])
    /\ ~IntRaises(ValorCentavosTexto(linhas[i + 1]))
    /\ LET linha  == linhas[i + 1]
           olha   == i + 1 < Len(linhas)
           temJ52 == olha /\ EhJ52(linhas[i + 2])
       IN  /\ pagamentos' = Append(pagamentos,
                  PagamentoCorrigido(linha,
                      IF temJ52 THEN RemetenteCnpj(linhas[i + 2]) ELSE <<>>,
                      IF temJ52 THEN RemetenteNome(linhas[i + 2]) ELSE <<>>))
           /\ fontes' = Append(fontes,
                  [ prim |-> i,
                    comp |-> IF temJ52 THEN i + 1 ELSE -1,
                    segb |-> -1 ])
           /\ exames' = exames
                  \cup {[estado |-> "Idle", linha |-> i, resultado |-> "primary"]}
                  \cup (IF olha
                        THEN {[estado |-> "AwaitJ", linha |-> i + 1,
                               resultado |-> IF temJ52 THEN "continuation"
                                                       ELSE "rejected"]}
                        ELSE {})
    /\ i' = AvancarCorrigido(i)
    /\ UNCHANGED <<prog, linhas, pc>>
    /\ UNCHANGED <<execucao, anterior>>
    /\ UNCHANGED outros

\* int(linha[119:134]) raises ValueError; nothing catches it, the call ends
\* without a return value
CorrigidoErro ==
    /\ prog = "teste_temp"
    /\ pc = "loop"
    /\ i < Len(linhas)
    /\ EhSegmentoJ(linhas[i + 1])
    /\ IntRaises(ValorCentavosTexto(linhas[i + 1]))
    /\ pc' = "erro"
    /\ exames' = exames
           \cup {[estado |-> "Idle", linha |-> i, resultado |-> "primary"]}
    /\ UNCHANGED <<prog, linhas, i, pagamentos, fontes>>
    /\ UNCHANGED <<execucao, anterior>>
    /\ UNCHANGED outros

\* the else branch: i += 1
CorrigidoPular ==
    /\ prog = "teste_temp"
    /\ pc = "loop"
    /\ i < Len(linhas)
    /\ ~EhSegmentoJ(linhas[i + 1])
    /\ i' = i + 1
    /\ exames' = exames
           \cup {[estado |-> "Idle", linha |-> i, resultado |-> "skipped"]}
    /\ UNCHANGED <<prog, linhas, pagamentos, pc, fontes>>
    /\ UNCHANGED <<execucao, anterior>>
    /\ UNCHANGED outros

CorrigidoRetornar ==
    /\ prog = "teste_temp"
    /\ pc = "loop"
    /\ ~(i < Len(linhas))
    /\ pc' = "done"
    /\ UNCHANGED <<prog, linhas, i, pagamentos, fontes, exames>>
    /\ UNCHANGED <<execucao, anterior>>
    /\ UNCHANGED outros

NextCorrigido == CorrigidoJ \/ CorrigidoErro \/ CorrigidoPular \/ CorrigidoRetornar

(* ------------------------------ input files ---------------------------- *)

\* a line of n characters: spaces, with the given texts at the given offsets
MkLinha(n, campos) ==
    [k \in 1..n |->
        LET hit == {c \in campos : k - 1 >= c[1] /\ k - 1 < c[1] + Len(c[2])}
        IN  IF hit = {} THEN " "
            ELSE LET c == CHOOSE c \in hit : TRUE IN c[2][k - c[1]]]

\* a segment J line: record type 3 at offset 7, "J" at offset 13, the
\* character seg14 after it, v1 in columns 26..35 and v2 in columns 119..133
LinhaJ(n, seg14, v1, v2) ==
    MkLinha(n, { <<0, <<"3", "4", "1">>>>, <<3, <<"0", "0", "0", "1">>>>,
                 <<7, <<"3">>>>, <<8, <<"0", "0", "0", "0", "1">>>>,
                 <<13, <<"J">>>>, <<14, <<seg14>>>>,
                 <<21, <<"1", "1", "1">>>>, <<26, v1>>,
                 <<37, <<"B", "O", "B">>>>, <<44, <<"9", "9", "9">>>>,
                 <<62, <<"A", "N", "A">>>>,
                 <<91, <<"0", "1", "0", "2", "2", "0", "2", "5", "3", "1">>>>,
                 <<119, v2>>, <<200, <<"X">>>> })

\* a segment B line whose free text from offset 127 on is resto
LinhaB(resto) ==
    MkLinha(127, { <<0, <<"3", "4", "1">>>>, <<7, <<"3">>>>, <<13, <<"B">>>>,
                   <<18, <<"3", "3", "3">>>>,
                   <<32, <<"R", "U", "A", " ", " ", "X">>>>,
                   <<62, <<"1", "0">>>>, <<67, <<"A", "P", " ", "1">>>>,
                   <<82, <<"C", "E", "N", "T", "R", "O">>>>,
                   <<97, <<"S", "A", "O", " ", "P", "A", "U", "L", "O">>>>,
                   <<117, <<"0", "1", "0", "0", "1", "0", "0", "0">>>>,
                   <<125, <<"S", "P">>>> }) \o resto

\* a file header line (record type 0)
LinhaHeader == MkLinha(240, { <<0, <<"3", "4", "1">>>>, <<7, <<"0">>>> })

ValorOk == <<"0", "0", "0", "0", "0", "1", "2", "3", "4", "5">>

CentavosOk == <<"0", "0", "0", "0", "0", "0", "0", "0", "0", "0", "6", "7", "8", "9", "0">>

JPrimaria == LinhaJ(240, " ", ValorOk, CentavosOk)

JSemDigitos == LinhaJ(240, " ", <<>>, <<>>)

JMisturada ==
    LinhaJ(240, " ", <<"R", "$", "1", ".", "2", "3", "4", ",", "5", "6">>,
           <<"-", "0", "0", "0", "0", "0", "0", "0", "0", "0", "1", "2", "3", "4", "5">>)

JSublinhado == LinhaJ(240, " ", <<"1", "2">>, <<"1", "_", "0", "0", "0">>)

J52 == LinhaJ(240, "0", ValorOk, CentavosOk)

JCurta == LinhaJ(180, " ", ValorOk, CentavosOk)

J52Curta == LinhaJ(50, "0", ValorOk, <<>>)

BComEmail ==
    LinhaB(<<" ", "a", "@", "b", ".", "c", " ", "l", "u", "c", "a", "s", "@",
             "e", "x", "a", "m", "p", "l", "e", ".", "c", "o", "m", " ",
             "x", "@", "y", "y", ".", "z", "z">>)

BCurta == SubSeq(LinhaB(<<>>), 1, 100)

Conteudos ==
    { JPrimaria, JSemDigitos, JMisturada, JSublinhado, J52, JCurta, J52Curta,
      BComEmail, BCurta, LinhaHeader }

\* arquivo.readlines(): every line keeps its "\n", the last one only when
\* the file ends with a newline
ReadLines(conteudo, fimNL) ==
    [k \in 1..Len(conteudo) |->
        IF k < Len(conteudo) \/ fimNL THEN Append(conteudo[k], "\n")
                                      ELSE conteudo[k]]

Arquivos == UNION {[1..n -> Conteudos] : n \in 0..MaxLinhas}

Init ==
    /\ prog \in {"teste", "teste_temp"}
    /\ \E conteudo \in Arquivos, fimNL \in BOOLEAN :
           linhas = ReadLines(conteudo, fimNL)
    /\ i = 0
    /\ pagamentos = <<>>
    /\ pc = "loop"
    /\ fontes = <<>>
    /\ exames = {}
    /\ execucao = 1
    /\ anterior = <<>>
    /\ OutrosParados

Next == NextTeste \/ NextCorrigido

Spec == Init /\ [][Next]_vars

(* -------------------- e-mail specification: SpecEmail ------------------ *)

RestoAlfabeto == {" ", "@", "."}

Restos == UNION {[1..n -> RestoAlfabeto] : n \in 0..MaxResto}

\* a header, a first J line and a segment B line with every free text of
\* at most MaxResto characters
InitEmail ==
    /\ prog = "teste"
    /\ \E resto \in Restos :
           linhas = ReadLines(<<LinhaHeader, JPrimaria, LinhaB(resto)>>, TRUE)
    /\ i = 0
    /\ pagamentos = <<>>
    /\ pc = "loop"
    /\ fontes = <<>>
    /\ exames = {}
    /\ execucao = 1
    /\ anterior = <<>>
    /\ OutrosParados

SpecEmail == InitEmail /\ [][NextTeste]_vars

(* ------------------------------- properties ---------------------------- *)

\* line number k (0-based) of the file
Linha(k) == linhas[k + 1]

Ultimo(seq) == seq[Len(seq)]

\* the step appends exactly one record and keeps the earlier ones
Emite == /\ Len(pagamentos') = Len(pagamentos) + 1
         /\ SubSeq(pagamentos', 1, Len(pagamentos)) = pagamentos

\* the cursor is on a segment J line of at least 240 characters
NaPrimaria == /\ pc = "loop"
              /\ i < Len(linhas)
              /\ EhSegmentoJ(Linha(i))
              /\ TamanhoValido(Linha(i))

\* what each extractor accepts as the line chained to a first J line
Continuacao(linha) ==
    IF prog = "teste" THEN EhSegmentoJ(linha) \/ EhSegmentoB(linha)
                      ELSE EhJ52(linha)

Complementar(linha) ==
    IF prog = "teste" THEN EhSegmentoJ(linha) ELSE EhJ52(linha)

\* C1: when the line after a first J line is not a continuation line, the
\* record is emitted from the first line alone and the cursor moves by one
\* line only, so that the following line is examined on the next iteration.
C1_ProximaNaoConsumida ==
    [][ (NaPrimaria /\ i + 1 < Len(linhas) /\ ~Continuacao(Linha(i + 1)))
        => /\ Emite
           /\ Ultimo(fontes').comp = -1
           /\ Ultimo(fontes').segb = -1
           /\ i' = i + 1 ]_vars

\* C2: a file of a first J line of at least 240 characters followed by a
\* complementary J line ends with exactly one record, whose payer fields are
\* those of the second line, and with the cursor two lines further.
C2_CadeiaDeDuasLinhas ==
    (/\ Len(linhas) = 2
     /\ EhSegmentoJ(Linha(0)) /\ TamanhoValido(Linha(0))
     /\ Complementar(Linha(1))
     /\ pc # "loop")
    => /\ pc = "done"
       /\ Len(pagamentos) = 1
       /\ i = 2
       /\ IF prog = "teste"
          THEN /\ pagamentos[1].cnpj_pagador = Strip(Slice(Linha(1), 21, 35))
               /\ pagamentos[1].pagador_nome = Strip(Slice(Linha(1), 35, 58))
          ELSE /\ pagamentos[1].remetente_cnpj = Strip(Slice(Linha(1), 44, 58))
               /\ pagamentos[1].remetente_nome = Strip(Slice(Linha(1), 58, 88))

\* the step of extrair_pagamentos_cnab240 on a chain first J, second J, B
PassoCadeiaJJB ==
    (/\ prog = "teste"
     /\ NaPrimaria
     /\ i + 2 < Len(linhas)
     /\ EhSegmentoJ(Linha(i + 1))
     /\ EhSegmentoB(Linha(i + 2)))
    => /\ Emite
       /\ i' = i + 3
       /\ pc' = "loop"
       /\ LET r == Ultimo(pagamentos')
              j == Linha(i + 1)
              b == Linha(i + 2)
          IN  /\ r.cnpj_pagador = Strip(Slice(j, 21, 35))
              /\ r.pagador_nome = Strip(Slice(j, 35, 58))
              /\ r.favorecido_nome = Strip(Slice(Linha(i), 61, 91))
              /\ r.logradouro = Strip(Slice(b, 32, 62))
              /\ r.numero_endereco = Strip(Slice(b, 62, 67))
              /\ r.complemento = Strip(Slice(b, 67, 82))
              /\ r.bairro = Strip(Slice(b, 82, 97))
              /\ r.cidade = Strip(Slice(b, 97, 117))
              /\ r.cep = Strip(Slice(b, 117, 125))
              /\ r.uf = Strip(Slice(b, 125, 127))
              /\ r.email = ExtrairEmail(b)
       /\ Ultimo(fontes') = [prim |-> i, comp |-> i + 1, segb |-> i + 2]

\* a line merged as segment B is the source of one record only, and only
\* as its segment B
SegmentoBUmaVez ==
    \A a \in 1..Len(fontes) :
        fontes[a].segb # -1 =>
            /\ EhSegmentoB(Linha(fontes[a].segb))
            /\ \A c \in 1..Len(fontes) :
                   /\ fontes[c].prim # fontes[a].segb
                   /\ fontes[c].comp # fontes[a].segb
                   /\ (c # a => fontes[c].segb # fontes[a].segb)

\* C3: for the chain first J, second J, segment B, extrair_pagamentos_cnab240
\* emits one record with the payer fields of the second line and the address
\* fields of the third, moves the cursor by three lines, and the segment B
\* line is the source of no other record.
C3_CadeiaJJB == [][PassoCadeiaJJB]_vars /\ []SegmentoBUmaVez

\* a record built from three lines, with payer and address filled in
C3_Witness ==
    \E k \in 1..Len(fontes) :
        /\ prog = "teste"
        /\ fontes[k].comp # -1
        /\ fontes[k].segb = fontes[k].comp + 1
        /\ pagamentos[k].pagador_nome # <<>>
        /\ pagamentos[k].logradouro # <<>>
        /\ pagamentos[k].email # <<>>
        /\ i = fontes[k].prim + 3

\* the text fields each extractor slices from the first line, from the
\* payer line and from the segment B line: <<key, start, end>>
CamposPrimaria ==
    IF prog = "teste"
    THEN { <<"codigo_banco", 0, 3>>, <<"codigo_lote", 3, 7>>,
           <<"tipo_registro", 7, 8>>, <<"numero_registro", 8, 13>>,
           <<"segmento", 13, 14>>, <<"codigo_barras", 17, 61>>,
           <<"codigo_movimento", 14, 20>>, <<"banco_favorecido", 20, 23>>,
           <<"codigo_camara", 23, 26>>, <<"documento", 41, 61>>,
           <<"favorecido_nome", 61, 91>>, <<"data_pagamento", 91, 99>>,
           <<"descontos", 114, 129>>, <<"acrescimos", 129, 143>>,
           <<"informacoes", 200, 220>> }
    ELSE { <<"banco", 16, 19>>, <<"agencia", 19, 24>>, <<"conta", 24, 36>>,
           <<"favorecido_cpf_cnpj", 44, 58>>, <<"favorecido_nome", 58, 88>> }

CamposPagador ==
    IF prog = "teste"
    THEN { <<"cnpj_pagador", 21, 35>>, <<"pagador_nome", 35, 58>> }
    ELSE { <<"remetente_cnpj", 44, 58>>, <<"remetente_nome", 58, 88>> }

CamposEndereco ==
    { <<"cnpj_favorecido", 18, 32>>, <<"logradouro", 32, 62>>,
      <<"numero_endereco", 62, 67>>, <<"complemento", 67, 82>>,
      <<"bairro", 82, 97>>, <<"cidade", 97, 117>>, <<"cep", 117, 125>>,
      <<"uf", 125, 127>> }

\* the currency field of the first line: valor_str, resp. the argument of int()
CampoValor(linha) ==
    IF prog = "teste" THEN Slice(linha, 26, 36) ELSE Slice(linha, 119, 134)

\* the integer written by the decimal digits of a text, the others left out
InteiroDosDigitos(txt) == DigitsToInt(SelectSeq(txt, IsDecimal))

SemDigitos(txt) == \A k \in 1..Len(txt) : ~IsDecimal(txt[k])

\* the record of the step has no payer and no address
SoDaPrimaria(r) ==
    IF prog = "teste"
    THEN /\ r.cnpj_pagador = <<>> /\ r.pagador_nome = <<>>
         /\ \A c \in CamposEndereco : r[c[1]] = <<>>
         /\ r.endereco_completo = <<>> /\ r.email = <<>>
    ELSE r.remetente_cnpj = <<>> /\ r.remetente_nome = <<>>

\* C4: a first J line of at least 240 characters that is the last line of
\* the file still yields its record, with empty payer and address fields,
\* the extraction goes on, and no line beyond the last one is examined.
C4_PrimariaNoFim ==
    [][ (NaPrimaria /\ i = Len(linhas) - 1)
        => /\ Emite
           /\ pc' = "loop"
           /\ SoDaPrimaria(Ultimo(pagamentos'))
           /\ \A e \in exames' : e.linha < Len(linhas) ]_vars

\* C5: for a first J line of at least 240 characters without continuation,
\* the amount of the emitted record is the integer written by the digits of
\* the currency field, the other characters left out, divided by 100.
C5_ValorDosDigitos ==
    [][ (/\ NaPrimaria
         /\ (i + 1 < Len(linhas) => ~Continuacao(Linha(i + 1))))
        => /\ Emite
           /\ Ultimo(pagamentos').valor
                  = Reais(InteiroDosDigitos(CampoValor(Linha(i)))) ]_vars

\* C6: a currency field without any digit raises nothing: the record is
\* emitted with amount zero and the loop goes on with the following lines.
C6_SemDigitosNaoAborta ==
    [][ (NaPrimaria /\ SemDigitos(CampoValor(Linha(i))))
        => /\ Emite
           /\ Ultimo(pagamentos').valor = Reais(0)
           /\ pc' = "loop" ]_vars

\* C7: a segment J line shorter than 240 characters still yields a record,
\* whose fields lying within the line have the value they have on a full
\* line, those reaching past its end being empty, and the loop goes on.
C7_LinhaCurtaProduzRegistro ==
    [][ (/\ pc = "loop"
         /\ i < Len(linhas)
         /\ EhSegmentoJ(Linha(i))
         /\ Len(Linha(i)) < 240)
        => /\ Emite
           /\ pc' = "loop"
           /\ \A c \in CamposPrimaria :
                  Ultimo(pagamentos')[c[1]] =
                      IF c[3] <= Len(Linha(i))
                      THEN Strip(Slice(Linha(i), c[2], c[3]))
                      ELSE <<>> ]_vars

\* the fields of record k that were sliced past the end of their line
ForaDoLimite(k) ==
    {c \in CamposPrimaria : c[3] > Len(Linha(fontes[k].prim))}
    \cup (IF fontes[k].comp = -1 THEN {}
          ELSE {c \in CamposPagador : c[3] > Len(Linha(fontes[k].comp))})
    \cup (IF fontes[k].segb = -1 THEN {}
          ELSE {c \in CamposEndereco : c[3] > Len(Linha(fontes[k].segb))})

\* C8: no field is cut or padded silently. The records hold nothing but
\* the sliced text, so no record may hold a field whose start + length
\* exceeds the length of the line it was sliced from.
C8_SemTruncamentoSilencioso ==
    \A k \in 1..Len(pagamentos) : ForaDoLimite(k) = {}

\* the two markers of a line: record type (offset 7), segment code (offset 13)
Marcadores(linha) == <<Slice(linha, 7, 8), Slice(linha, 13, 14)>>

\* C9: two lines with the same two markers, examined in the same state of
\* the assembler, are treated alike, whatever their other characters and
\* their lengths.
C9_SoOsMarcadores ==
    \A e1, e2 \in exames :
        (/\ e1.estado = e2.estado
         /\ Marcadores(Linha(e1.linha)) = Marcadores(Linha(e2.linha)))
        => e1.resultado = e2.resultado

\* [a, b] is a maximal run of non-whitespace characters of txt
Token(txt, a, b) ==
    /\ 1 <= a /\ a <= b /\ b <= Len(txt)
    /\ \A k \in a..b : txt[k] \notin Whitespace
    /\ (a = 1 \/ txt[a - 1] \in Whitespace)
    /\ (b = Len(txt) \/ txt[b + 1] \in Whitespace)

\* the tokens with an "@", a "." and more than 5 characters
Qualificados(txt) ==
    {t \in (1..Len(txt)) \X (1..Len(txt)) :
        /\ Token(txt, t[1], t[2])
        /\ \E k \in t[1]..t[2] : txt[k] = "@"
        /\ \E k \in t[1]..t[2] : txt[k] = "."
        /\ t[2] - t[1] + 1 > 5}

EmailEsperado(linha) ==
    LET txt == SliceFrom(linha, 127)
        Q     == Qualificados(txt)
    IN  IF Q = {} THEN <<>>
        ELSE LET t == CHOOSE t \in Q : \A u \in Q : t[1] <= u[1]
             IN  SubSeq(txt, t[1], t[2])

\* the segment B line the step of extrair_pagamentos_cnab240 merges, or -1
SegmentoBDoPasso ==
    LET iJ == IF i + 1 < Len(linhas) /\ EhSegmentoJ(Linha(i + 1))
              THEN i + 1 ELSE i
    IN  IF iJ + 1 < Len(linhas) /\ EhSegmentoB(Linha(iJ + 1))
        THEN iJ + 1 ELSE -1

\* C10: the e-mail of a record enriched by a segment B line is the first
\* whitespace-separated token from offset 127 on that has an "@", a "." and
\* more than 5 characters; without such a token it is empty, and the record
\* is emitted all the same.
C10_EmailPrimeiroToken ==
    [][ (prog = "teste" /\ NaPrimaria /\ SegmentoBDoPasso # -1)
        => /\ Emite
           /\ Ultimo(fontes').segb = SegmentoBDoPasso
           /\ Ultimo(pagamentos').email = EmailEsperado(Linha(SegmentoBDoPasso))
       ]_vars

\* an e-mail was found behind a token that has an "@" but does not qualify
C10_Witness ==
    \E k \in 1..Len(fontes) :
        /\ fontes[k].segb # -1
        /\ pagamentos[k].email # <<>>
        /\ LET partes == Split(SliceFrom(Linha(fontes[k].segb), 127))
           IN  /\ Len(partes) >= 2
               /\ Contains("@", partes[1])
               /\ partes[1] # pagamentos[k].email

(* --------------------- a second call: SpecDuas ------------------------- *)

\* pagamentos as a module-level list that survives the first call
PagamentosAoChamar_global == pagamentos

\* pagamentos = [] at the head of both functions: the list is local
PagamentosAoChamar == <<>>

\* what a call hands to its caller: the list, or the exception
Resultado ==
    [fim |-> pc, pagamentos |-> IF pc = "done" THEN pagamentos ELSE <<>>]

\* the same extractor is called again on the same file: the file is read
\* again, i and pagamentos are set anew
Reexecutar ==
    /\ prog \in {"teste", "teste_temp"}
    /\ pc \in {"done", "erro"}
    /\ execucao = 1
    /\ execucao' = 2
    /\ anterior' = Resultado
    /\ i' = 0
    /\ pagamentos' = PagamentosAoChamar
    /\ pc' = "loop"
    /\ fontes' = <<>>
    /\ exames' = {}
    /\ UNCHANGED <<prog, linhas>>
    /\ UNCHANGED outros

NextDuas == NextTeste \/ NextCorrigido \/ Reexecutar

SpecDuas == Init /\ [][NextDuas]_vars

C12_LinhaDesconhecidaPulada ==
    [][ (/\ pc = "loop"
         /\ i < Len(linhas)
         /\ Marcadores(Linha(i)) # <<<<"3">>, <<"J">>>>)
        => /\ i' = i + 1
           /\ pagamentos' = pagamentos
           /\ fontes' = fontes
           /\ pc' = "loop" ]_vars

\* a header or segment B line was just skipped behind an emitted record
C12_Witness ==
    /\ pc = "loop"
    /\ Len(pagamentos) >= 1
    /\ i >= 1
    /\ [estado |-> "Idle", linha |-> i - 1, resultado |-> "skipped"] \in exames
    /\ Marcadores(Linha(i - 1)) # <<<<"3">>, <<"J">>>>

\* the date field of the first J line, as each extractor slices it
CampoData(linha) ==
    IF prog = "teste" THEN Strip(Slice(linha, 91, 99)) ELSE Slice(linha, 93, 101)

OitoDigitos(d) == Len(d) = 8 /\ \A k \in 1..8 : IsDecimal(d[k])

Bissexto(ano) == (ano % 4 = 0 /\ ano % 100 # 0) \/ ano % 400 = 0

DiasNoMes(ano, mes) ==
    IF mes = 2 THEN (IF Bissexto(ano) THEN 29 ELSE 28)
    ELSE IF mes \in {4, 6, 9, 11} THEN 30 ELSE 31

DataDoCalendario(ano, mes, dia) ==
    /\ ano >= 1
    /\ mes \in 1..12
    /\ dia >= 1 /\ dia <= DiasNoMes(ano, mes)

\* the 8 digits are a calendar date read as YYYYMMDD or as DDMMYYYY
DataValida(d) ==
    \/ DataDoCalendario(DigitsToInt(SubSeq(d, 1, 4)), DigitsToInt(SubSeq(d, 5, 6)),
                        DigitsToInt(SubSeq(d, 7, 8)))
    \/ DataDoCalendario(DigitsToInt(SubSeq(d, 5, 8)), DigitsToInt(SubSeq(d, 3, 4)),
                        DigitsToInt(SubSeq(d, 1, 2)))

\* C13: an 8-digit date field that is no calendar date, in either digit
\* order, is kept in the record as its raw digits, never formatted as a
\* date, and the record is emitted.
C13_DataInvalidaCrua ==
    [][ (/\ NaPrimaria
         /\ OitoDigitos(CampoData(Linha(i)))
         /\ ~DataValida(CampoData(Linha(i))))
        => /\ Emite
           /\ Ultimo(pagamentos').data_pagamento = CampoData(Linha(i)) ]_vars

\* the lines a step examines: the one at the cursor, and one line ahead of
\* the cursor as it stands when the line is examined
LeituraDoPasso(e) ==
    /\ e.linha >= 0 /\ e.linha < Len(linhas)
    /\ e.estado = "Idle" => e.linha = i
    /\ e.estado = "AwaitJ" => e.linha = i + 1
    /\ e.estado = "AwaitB" =>
           e.linha = IF [estado |-> "AwaitJ", linha |-> i + 1,
                         resultado |-> "continuation"] \in exames'
                     THEN i + 2 ELSE i + 1

PassoParaFrente ==
    pc = "loop" =>
        /\ i' >= i
        /\ (pc' = "loop" /\ i < Len(linhas)) => i' >= i + 1
        /\ i' <= Len(linhas) + 1
        /\ \A e \in exames' \ exames : LeituraDoPasso(e)

\* the lines record k was built from
FontesDe(k) == {fontes[k].prim, fontes[k].comp, fontes[k].segb} \ {-1}

FonteUmaVez ==
    \A a \in 1..Len(fontes) :
        /\ Cardinality(FontesDe(a)) =
               1 + (IF fontes[a].comp = -1 THEN 0 ELSE 1)
                 + (IF fontes[a].segb = -1 THEN 0 ELSE 1)
        /\ \A c \in 1..Len(fontes) : c # a => FontesDe(a) \cap FontesDe(c) = {}

\* C15: the loops make one forward pass: the cursor never goes back, every
\* iteration that stays in the loop moves it by at least one line, a step
\* examines only the line at the cursor and one line ahead of it, and no
\* line is the source of fields of more than one record.
C15_PassagemUnica == [][PassoParaFrente]_vars /\ []FonteUmaVez

\* a file of three lines read to its end as one chain
C15_Witness ==
    /\ pc = "done"
    /\ i = 3
    /\ Len(linhas) = 3
    /\ \E k \in 1..Len(fontes) : Cardinality(FontesDe(k)) = 3

\* C16: on a file of k lines, all segment J lines of at least 240
\* characters, the extractors emit ceil(k/2) records, built from the 1st,
\* 3rd, ... lines, each following line being absorbed as the payer line of
\* the record before it.
C16_MetadeDosRegistros ==
    (/\ pc # "loop"
     /\ Len(linhas) >= 1
     /\ \A k \in 1..Len(linhas) : EhSegmentoJ(linhas[k]) /\ TamanhoValido(linhas[k]))
    => /\ pc = "done"
       /\ Len(pagamentos) = (Len(linhas) + 1) \div 2
       /\ \A n \in 1..Len(fontes) :
              /\ fontes[n].prim = 2 * (n - 1)
              /\ fontes[n].comp = IF 2 * n - 1 < Len(linhas) THEN 2 * n - 1 ELSE -1
              /\ fontes[n].segb = -1

(* ------- format_cnab_v2.py and create_valid_cnab.py: SpecNorm ---------- *)

\* linha.rstrip('\n\r')
RECURSIVE RStripQuebras(_)
RStripQuebras(s) ==
    IF s # <<>> /\ s[Len(s)] \in {"\n", "\r"}
    THEN RStripQuebras(SubSeq(s, 1, Len(s) - 1))
    ELSE s

\* s.ljust(n): spaces are added on the right up to n characters, a longer
\* string is returned as it is
LJust(s, n) == IF Len(s) >= n THEN s ELSE s \o [k \in 1..(n - Len(s)) |-> " "]

\* format_cnab_v2.py: linha_limpa.ljust(240)
FormatadaV2(linha) == LJust(RStripQuebras(linha), 240)

\* create_valid_cnab.py: cut to 240 when longer, else ljust(240, ' ')
FormatadaValida(linha) ==
    LET linha_limpa == RStripQuebras(linha)
    IN  IF Len(linha_limpa) > 240 THEN Slice(linha_limpa, 0, 240)
                                  ELSE LJust(linha_limpa, 240)

\* f.write(registro + '\n') for every record
Gravados(regs) == [k \in 1..Len(regs) |-> Append(regs[k], "\n")]

frameNorm == <<prog, linhas, pagamentos, fontes, exames, execucao, anterior,
               content, registros, texto, min_length, max_length, sequencias,
               codigo, retorno>>

\* one turn of the for loop of format_cnab_v2.py
FormatarV2 ==
    /\ prog = "format_cnab_v2"
    /\ pc = "loop"
    /\ i < Len(linhas)
    /\ registros_formatados' = Append(registros_formatados, FormatadaV2(linhas[i + 1]))
    /\ i' = i + 1
    /\ UNCHANGED <<pc, escrito>>
    /\ UNCHANGED frameNorm

\* the output file of format_cnab_v2.py is written
SalvarV2 ==
    /\ prog = "format_cnab_v2"
    /\ pc = "loop"
    /\ ~(i < Len(linhas))
    /\ escrito' = Gravados(registros_formatados)
    /\ pc' = "done"
    /\ UNCHANGED <<i, registros_formatados>>
    /\ UNCHANGED frameNorm

\* one turn of the for loop of create_valid_cnab.py
FormatarValido ==
    /\ prog = "create_valid_cnab"
    /\ pc = "loop"
    /\ i < Len(linhas)
    /\ registros_formatados' = Append(registros_formatados, FormatadaValida(linhas[i + 1]))
    /\ i' = i + 1
    /\ UNCHANGED <<pc, escrito>>
    /\ UNCHANGED frameNorm

\* the output file of create_valid_cnab.py is written
SalvarValido ==
    /\ prog = "create_valid_cnab"
    /\ pc = "loop"
    /\ ~(i < Len(linhas))
    /\ escrito' = Gravados(registros_formatados)
    /\ pc' = "done"
    /\ UNCHANGED <<i, registros_formatados>>
    /\ UNCHANGED frameNorm

NextNorm == FormatarV2 \/ SalvarV2 \/ FormatarValido \/ SalvarValido

\* a line of more than 240 characters
LinhaLonga == LinhaJ(250, " ", ValorOk, CentavosOk)

ConteudosNorm == {JPrimaria, JCurta, LinhaLonga, <<>>}

ArquivosNorm == UNION {[1..n -> ConteudosNorm] : n \in 0..MaxLinhas}

\* the default values of the variables the script at hand does not use
ExtratorParado ==
    /\ pagamentos = <<>>
    /\ fontes = <<>>
    /\ exames = {}
    /\ execucao = 1
    /\ anterior = <<>>

InitNorm ==
    /\ prog \in {"format_cnab_v2", "create_valid_cnab"}
    /\ \E conteudo \in ArquivosNorm, fimNL \in BOOLEAN :
           /\ IF fimNL \/ conteudo = <<>> THEN TRUE
                                             ELSE conteudo[Len(conteudo)] # <<>>
           /\ linhas = ReadLines(conteudo, fimNL)
    /\ i = 0
    /\ pc = "loop"
    /\ ExtratorParado
    /\ OutrosParados

SpecNorm == InitNorm /\ [][NextNorm]_vars

\* C14: each input line gives one record of exactly 240 characters: a
\* shorter line keeps its characters and is filled with spaces, a longer
\* line gives no record of more than 240 characters, and as many records
\* are written as there are lines.
C14_Registros240 ==
    /\ \A k \in 1..Len(registros_formatados) :
           LET limpa == RStripQuebras(linhas[k])
               reg   == registros_formatados[k]
           IN  /\ Len(reg) = 240
               /\ Len(limpa) <= 240 =>
                      /\ SubSeq(reg, 1, Len(limpa)) = limpa
                      /\ \A n \in (Len(limpa) + 1)..240 : reg[n] = " "
    /\ pc = "done" =>
           /\ Len(escrito) = Len(linhas)
           /\ \A k \in 1..Len(escrito) :
                  escrito[k] = Append(registros_formatados[k], "\n")

(* ------- format_cnab.py: SpecScan ------------------------------------- *)

MaxPecas == 3

\* the 14 record codes of the membership test
Codigos ==
    { <<"3", "4", "1", "0", "0", "0", p[1], p[2]>> :
          p \in { <<"0", "0">>, <<"1", "1">>, <<"1", "3">>, <<"1", "5">>,
                  <<"2", "1">>, <<"2", "3">>, <<"2", "5">>, <<"3", "1">>,
                  <<"3", "3">>, <<"3", "5">>, <<"4", "1">>, <<"4", "3">>,
                  <<"4", "5">> } }
    \cup { <<"3", "4", "1", "9", "9", "9", "9", "9">> }

\* f.read().replace('\n', '').replace('\r', '')
SemQuebras(s) == SelectSeq(s, LAMBDA c : c \notin {"\n", "\r"})

\* i + 8 <= len(content) and content[i:i+8] in [...]
TemCodigo(k) ==
    IF k + 8 <= Len(content) THEN Slice(content, k, k + 8) \in Codigos
                             ELSE FALSE

\* fim = min(i + 240, len(content))
Fim(k) == IF k + 240 <= Len(content) THEN k + 240 ELSE Len(content)

\* registro = content[i:fim], filled with spaces when shorter than 240
Registro(k) ==
    LET registro == Slice(content, k, Fim(k))
    IN  IF Len(registro) < 240 THEN LJust(registro, 240) ELSE registro

AvancarRegistro_curto(k) == k + 8

\* i += 240
AvancarRegistro(k) == k + 240

frameScan == <<prog, linhas, pagamentos, exames, execucao, anterior,
               registros_formatados, content, texto, min_length, max_length,
               sequencias, codigo, retorno>>

\* a turn of the while loop at a position where a record code starts
Casar ==
    /\ prog = "format_cnab"
    /\ pc = "loop"
    /\ i < Len(content)
    /\ TemCodigo(i)
    /\ registros' = Append(registros, Registro(i))
    /\ fontes' = Append(fontes, [ini |-> i, fim |-> Fim(i)])
    /\ i' = AvancarRegistro(i)
    /\ UNCHANGED <<pc, escrito>>
    /\ UNCHANGED frameScan

\* a turn of the while loop at any other position
AvancarUm ==
    /\ prog = "format_cnab"
    /\ pc = "loop"
    /\ i < Len(content)
    /\ ~TemCodigo(i)
    /\ i' = i + 1
    /\ UNCHANGED <<pc, escrito, registros, fontes>>
    /\ UNCHANGED frameScan

\* the loop is left and cnab_240_formatado.txt is written
SalvarScan ==
    /\ prog = "format_cnab"
    /\ pc = "loop"
    /\ ~(i < Len(content))
    /\ escrito' = Gravados(registros)
    /\ pc' = "done"
    /\ UNCHANGED <<i, registros, fontes>>
    /\ UNCHANGED frameScan

NextScan == Casar \/ AvancarUm \/ SalvarScan

\* n characters that begin with cod (or with its first n characters) and
\* carry interno at offset 100 when they are long enough
Peca(cod, n, interno) ==
    [k \in 1..n |->
        IF k <= Len(cod) THEN cod[k]
        ELSE IF k > 100 /\ k <= 100 + Len(interno) THEN interno[k - 100]
        ELSE " "]

CodHeader == <<"3", "4", "1", "0", "0", "0", "0", "0">>
CodSegmento == <<"3", "4", "1", "0", "0", "0", "1", "3">>
CodTrailer == <<"3", "4", "1", "9", "9", "9", "9", "9">>
NaoCodigo == <<"3", "4", "1", "0", "0", "0", "1", "2">>

Pecas ==
    { Peca(CodHeader, 240, <<>>),
      Peca(CodSegmento, 240, CodTrailer),
      Peca(CodTrailer, 100, <<>>),
      Peca(NaoCodigo, 12, <<>>),
      Peca(CodHeader, 7, <<>>),
      <<"x", "x">> }

\* the text of the file: every piece followed by the line break sep
RECURSIVE Juntar(_, _)
Juntar(pecas, sep) ==
    IF pecas = <<>> THEN <<>>
    ELSE Head(pecas) \o sep \o Juntar(Tail(pecas), sep)

TextosScan ==
    { Juntar(pecas, sep) :
          pecas \in UNION {[1..n -> Pecas] : n \in 0..MaxPecas},
          sep \in { <<"\n">>, <<"\r", "\n">> } }

InitScan ==
    /\ prog = "format_cnab"
    /\ \E t \in TextosScan : content = SemQuebras(t)
    /\ registros = <<>>
    /\ i = 0
    /\ pc = "loop"
    /\ linhas = <<>>
    /\ ExtratorParado
    /\ registros_formatados = <<>>
    /\ escrito = <<>>
    /\ texto = <<>>
    /\ min_length = 0
    /\ max_length = 0
    /\ sequencias = <<>>
    /\ codigo = <<>>
    /\ retorno = "None"

SpecScan == InitScan /\ [][NextScan]_vars

\* the script runs to its end: no turn of the loop waits for anything
SpecScanJusto == SpecScan /\ WF_vars(NextScan)

\* every record written so far: 240 characters, a record code first, the
\* characters of its stretch followed by spaces only, and a stretch that
\* starts at or after the end of every earlier one
RegistrosBemFormados ==
    /\ Len(fontes) = Len(registros)
    /\ \A k \in 1..Len(registros) :
           LET reg == registros[k]
               f   == fontes[k]
           IN  /\ Len(reg) = 240
               /\ SubSeq(reg, 1, 8) \in Codigos
               /\ f.fim - f.ini = 240 \/ f.fim = Len(content)
               /\ SubSeq(reg, 1, f.fim - f.ini) = SubSeq(content, f.ini + 1, f.fim)
               /\ \A n \in (f.fim - f.ini + 1)..240 : reg[n] = " "
               /\ \A j \in 1..(k - 1) : fontes[j].fim <= f.ini
    /\ pc = "done" => escrito = [k \in 1..Len(registros) |-> Append(registros[k], "\n")]

\* a match resumes the scan 240 characters later, any other turn one later
PassoDaVarredura ==
    /\ i' > i \/ (pc' = "done" /\ i' = i)
    /\ Len(registros') > Len(registros) => i' = i + 240

\* C17: the scanner terminates on every content; every record is 240
\* characters long, begins with one of the 14 codes and comes from a
\* stretch that overlaps no other record's stretch, the scan resuming 240
\* characters after a match and a short final match being filled with
\* spaces.
C17_VarreduraDeRegistros ==
    /\ []RegistrosBemFormados
    /\ [][PassoDaVarredura]_vars
    /\ <>(pc = "done")

\* two records, the last one short and filled with spaces, and a record
\* code inside the first stretch that started no record
C17_Witness ==
    /\ pc = "done"
    /\ Len(registros) >= 2
    /\ fontes[Len(fontes)].fim - fontes[Len(fontes)].ini < 240
    /\ \E k \in (fontes[1].ini + 1)..(fontes[1].fim - 1) : TemCodigo(k)

(* ------- validador_codigos_barras.py: SpecSeq -------------------------- *)

MaxTexto == 6

\* max_length when the caller does not give it (None)
SemMaximo == -1

\* j after the inner while: the first position at or after k that holds no
\* digit, len(texto) when there is none
RECURSIVE FimDaSequencia(_)
FimDaSequencia(k) ==
    IF k < Len(texto) /\ IsDigit(texto[k + 1]) THEN FimDaSequencia(k + 1)
                                               ELSE k

\* min_length <= tamanho <= max_length
TamanhoAceito(tamanho) == min_length <= tamanho /\ tamanho <= max_length

Retomar_umAFrente(ini, j) == ini + 1

\* i = j
Retomar(ini, j) == j

frameSeq == <<prog, linhas, pagamentos, fontes, exames, execucao, anterior,
              registros_formatados, escrito, content, registros, codigo,
              retorno>>

\* the function is entered: the default of max_length, the empty list, i = 0
EntrarSequencias ==
    /\ prog = "encontrar_sequencias_numericas"
    /\ pc = "call"
    /\ max_length' = IF max_length = SemMaximo THEN min_length ELSE max_length
    /\ sequencias' = <<>>
    /\ i' = 0
    /\ pc' = "loop"
    /\ UNCHANGED <<texto, min_length>>
    /\ UNCHANGED frameSeq

\* a turn of the outer loop at a digit: the whole run is read
LerSequencia ==
    /\ prog = "encontrar_sequencias_numericas"
    /\ pc = "loop"
    /\ i < Len(texto)
    /\ IsDigit(texto[i + 1])
    /\ LET j == FimDaSequencia(i)
           tamanho == j - i
       IN  /\ sequencias' = IF TamanhoAceito(tamanho)
                            THEN Append(sequencias, Slice(texto, i, j))
                            ELSE sequencias
           /\ i' = Retomar(i, j)
    /\ UNCHANGED <<pc, texto, min_length, max_length>>
    /\ UNCHANGED frameSeq

\* a turn of the outer loop at any other character
PassarCaractere ==
    /\ prog = "encontrar_sequencias_numericas"
    /\ pc = "loop"
    /\ i < Len(texto)
    /\ ~IsDigit(texto[i + 1])
    /\ i' = i + 1
    /\ UNCHANGED <<pc, texto, min_length, max_length, sequencias>>
    /\ UNCHANGED frameSeq

\* return sequencias
RetornarSequencias ==
    /\ prog = "encontrar_sequencias_numericas"
    /\ pc = "loop"
    /\ ~(i < Len(texto))
    /\ pc' = "done"
    /\ UNCHANGED <<i, texto, min_length, max_length, sequencias>>
    /\ UNCHANGED frameSeq

NextSeq == EntrarSequencias \/ LerSequencia \/ PassarCaractere \/ RetornarSequencias

AlfabetoTexto == {"1", "2", "x"}

Textos == UNION {[1..n -> AlfabetoTexto] : n \in 0..MaxTexto}

InitSeq ==
    /\ prog = "encontrar_sequencias_numericas"
    /\ texto \in Textos
    /\ min_length \in 1..2
    /\ max_length \in {SemMaximo, 1, 2, 3}
    /\ sequencias = <<>>
    /\ i = 0
    /\ pc = "call"
    /\ linhas = <<>>
    /\ ExtratorParado
    /\ registros_formatados = <<>>
    /\ escrito = <<>>
    /\ content = <<>>
    /\ registros = <<>>
    /\ codigo = <<>>
    /\ retorno = "None"

SpecSeq == InitSeq /\ [][NextSeq]_vars

\* the function runs to its return
SpecSeqJusto == SpecSeq /\ WF_vars(NextSeq)

\* a..b (1-based) is a maximal run of digits of txt
CorridaMaximal(txt, a, b) ==
    /\ a <= b
    /\ \A k \in a..b : IsDigit(txt[k])
    /\ a = 1 \/ ~IsDigit(txt[a - 1])
    /\ b = Len(txt) \/ ~IsDigit(txt[b + 1])

\* the maximal runs of txt with a length in lo..hi
CorridasAceitas(txt, lo, hi) ==
    { p \in (1..Len(txt)) \X (1..Len(txt)) :
          /\ CorridaMaximal(txt, p[1], p[2])
          /\ p[2] - p[1] + 1 \in lo..hi }

\* the runs of S from left to right, as strings
RECURSIVE DaEsquerdaParaDireita(_, _)
DaEsquerdaParaDireita(txt, S) ==
    IF S = {} THEN <<>>
    ELSE LET p == CHOOSE p \in S : \A q \in S : p[1] <= q[1]
         IN  <<SubSeq(txt, p[1], p[2])>> \o DaEsquerdaParaDireita(txt, S \ {p})

\* C18: the function returns, from left to right, exactly the maximal runs
\* of digits of texto with a length in [min_length, max_length], max_length
\* being min_length when it is not given; a longer run gives nothing, no
\* returned string holds a non-digit, and the scan ends.
C18_CorridasMaximais ==
    /\ [](pc = "done" =>
            /\ sequencias = DaEsquerdaParaDireita(texto,
                                CorridasAceitas(texto, min_length, max_length))
            /\ \A k \in 1..Len(sequencias) :
                   \A n \in 1..Len(sequencias[k]) : IsDigit(sequencias[k][n]))
    /\ [][ /\ pc = "call" =>
                max_length' = IF max_length = SemMaximo THEN min_length ELSE max_length
           /\ pc = "loop" => i' > i \/ (pc' = "done" /\ i' = i) ]_vars
    /\ <>(pc = "done")

\* two runs returned in their order, and a longer run that gave nothing
C18_Witness ==
    /\ pc = "done"
    /\ Len(sequencias) >= 2
    /\ sequencias[1] # sequencias[2]
    /\ \E a \in 1..Len(texto), b \in 1..Len(texto) :
           CorridaMaximal(texto, a, b) /\ b - a + 1 > max_length

(* ------- validador_codigos_barras.py: SpecValidar ---------------------- *)

MaxDesvio == 2

frameValidar == <<prog, linhas, i, pagamentos, fontes, exames, execucao,
                  anterior, registros_formatados, escrito, content,
                  registros, texto, min_length, max_length, sequencias,
                  codigo>>

\* len(codigo) != 44: the error is printed and False returned
RecusarTamanho ==
    /\ prog = "validar_codigo_barras"
    /\ pc = "call"
    /\ Len(codigo) # 44
    /\ retorno' = "False"
    /\ pc' = "done"
    /\ UNCHANGED frameValidar

\* the fields are sliced and printed, True is returned
AceitarCodigo ==
    /\ prog = "validar_codigo_barras"
    /\ pc = "call"
    /\ ~(Len(codigo) # 44)
    /\ retorno' = "True"
    /\ pc' = "done"
    /\ UNCHANGED frameValidar

NextValidar == RecusarTamanho \/ AceitarCodigo

\* n characters, all digits but for an "x" at position p (none when p = 0)
Cod(n, p) ==
    [k \in 1..n |-> IF k = p THEN "x" ELSE Digits[((k - 1) % 10) + 1]]

CodigosDeBarras ==
    { Cod(n, p) : n \in (44 - MaxDesvio)..(44 + MaxDesvio), p \in 0..(44 + MaxDesvio) }

InitValidar ==
    /\ prog = "validar_codigo_barras"
    /\ codigo \in CodigosDeBarras
    /\ retorno = "None"
    /\ pc = "call"
    /\ linhas = <<>>
    /\ i = 0
    /\ ExtratorParado
    /\ registros_formatados = <<>>
    /\ escrito = <<>>
    /\ content = <<>>
    /\ registros = <<>>
    /\ texto = <<>>
    /\ min_length = 0
    /\ max_length = 0
    /\ sequencias = <<>>

SpecValidar == InitValidar /\ [][NextValidar]_vars

\* C19: True is returned exactly for a codigo of 44 characters that are all
\* digits, False for any other length and for any codigo holding a
\* non-digit.
C19_SoQuarentaEQuatroDigitos ==
    pc = "done" =>
        /\ retorno \in {"True", "False"}
        /\ retorno = "True" <=>
               (Len(codigo) = 44 /\ \A k \in 1..Len(codigo) : IsDigit(codigo[k]))

====
